---- MODULE Spec2Model ----
(***************************************************************************)
(* A model of admin_actions: the @action decorator (admin.py 45-154), the  *)
(* ActionsModelAdmin mixin (admin.py 157-383) and the URL helpers of       *)
(* utils.py.  One admin view class is declared (its body is drawn in Init),*)
(* instances of it are constructed, and the framework then calls the       *)
(* instance's handlers in any order.                                       *)
(*                                                                         *)
(* Python's None is the empty tuple <<>> and a present value x is <<x>>,   *)
(* so that "x is None" and truthiness can be told apart for every type.    *)
(***************************************************************************)
EXTENDS Integers, Sequences, FiniteSets, TLC

\* ------------------------------------------------------------------ bounds
\* Primary keys of the rows that exist in the table are 0..MaxPk.
MaxPk == 1

Pks == 0..MaxPk

None == <<>>
Some(x) == <<x>>

\* ----------------------------------------------------------------- strings
\* A str is a tuple of one-character strings.
Upper(c) ==
    CASE c = "f" -> "F" [] c = "h" -> "H" [] c = "d" -> "D" [] c = "b" -> "B"
      [] c = "i" -> "I" [] c = "l" -> "L" [] c = "e" -> "E" [] c = "t" -> "T"
      [] OTHER -> c

Lower(c) ==
    CASE c = "F" -> "f" [] c = "H" -> "h" [] c = "D" -> "d" [] c = "B" -> "b"
      [] c = "I" -> "i" [] c = "L" -> "l" [] c = "E" -> "e" [] c = "T" -> "t"
      [] OTHER -> c

\* str.capitalize(): first character upper-cased, the rest lower-cased.
capitalize(s) ==
    [k \in DOMAIN s |-> IF k = 1 THEN Upper(s[k]) ELSE Lower(s[k])]

\* str.replace(old, new) for one-character old and new.
replace(s, old, new) ==
    [k \in DOMAIN s |-> IF s[k] = old THEN new ELSE s[k]]

\* f.__name__ spelled out, for the method identifiers the class declares.
Chars(f) ==
    CASE f = "hide_It" -> <<"h", "i", "d", "e", "_", "I", "t">>
      [] f = "fill_DB" -> <<"f", "i", "l", "l", "_", "D", "B">>
      [] OTHER -> <<f>>

readable_name(f) == replace(capitalize(Chars(f)), "_", " ")

\* --------------------------------------------------- visibility predicates
always_visible(view, request, obj) == TRUE

\* The predicate without its "not".
hide_in_prod_inverted(prod, view, request, obj) == prod

hide_in_prod(prod, view, request, obj) == ~prod

\* A user predicate in the manner of the docstring's example 4,
\* lambda obj, **kw: obj is None or not obj.is_hidden
not_hidden(view, request, obj) == obj = None \/ ~obj[1].is_hidden

\* ------------------------------------------------------------ the decorator
\* action(row=, list=, detail=, name=, show_message=, visible=)(f): the
\* attributes set on the wrapper ("inner").  show_message and f are closed
\* over by inner; they are kept in the record for Inner below.
action(f, row, list, detail, name, show_message, visible) ==
    [ismethod |-> TRUE,
     __name__ |-> f,
     __is_action |-> TRUE,
     short_description |->
         IF name # None /\ name[1] # <<>> THEN name[1] ELSE readable_name(f),
     __is_row |-> row,
     __is_list |-> list,
     __is_detail |-> detail,
     __visible |-> visible,
     show_message |-> show_message]

\* An undecorated method and a plain attribute of the class.
PlainMethod(f) == [ismethod |-> TRUE, __name__ |-> f]
PlainAttr(f) == [ismethod |-> FALSE, __name__ |-> f]

isaction(obj) == obj.ismethod /\ "__is_action" \in DOMAIN obj

FillName == <<"F", "i", "l", "l">>

\* The class bodies Init draws from.  "hide_It" is declared with every
\* combination of placement flags, the default name and the default
\* show_message; "fill_DB" has a name override and is declared either in all
\* three placements without a message or as a list action with one.  The
\* class also has an undecorated method and a plain attribute.
HideDecls ==
    {action("hide_It", r, l, d, None, TRUE, "not_hidden") : r, l, d \in BOOLEAN}

FillDecls ==
    {action("fill_DB", TRUE, TRUE, TRUE, Some(FillName), FALSE, "hide_in_prod"),
     action("fill_DB", FALSE, TRUE, FALSE, Some(FillName), TRUE, "hide_in_prod")}

ClassBody(h, f) ==
    [m \in {"fill_DB", "get_queryset", "hide_It", "list_per_page"} |->
        CASE m = "hide_It" -> h
          [] m = "fill_DB" -> f
          [] m = "get_queryset" -> PlainMethod(m)
          [] OTHER -> PlainAttr(m)]

ClassBodies == {ClassBody(h, f) : h \in HideDecls, f \in FillDecls}

\* The class of the two-instance specification: the docstring's example 1
\* (row=True, detail=True) beside a list action.
TwoBodies ==
    {ClassBody(action("hide_It", TRUE, FALSE, TRUE, None, TRUE, "not_hidden"),
               action("fill_DB", FALSE, TRUE, FALSE, Some(FillName), TRUE,
                      "hide_in_prod"))}

\* inspect.getmembers returns the members sorted by name.
MemberOrder == <<"fill_DB", "get_queryset", "hide_It", "list_per_page">>

VARIABLES
    is_production,  \* settings.APPLICATION_ENVIRONMENT.is_production
    body,           \* the admin view class's body: member name -> member
    cls,            \* the class attributes _actions_row/_list/_detail
    admin,          \* per instance: its __dict__ (constructed, buckets,
                    \* request, object)
    op,             \* the last call and its arguments
    result,         \* what the last call returned
    messages,       \* message_user calls made by the last call
    evals,          \* visibility predicate evaluations made by the last call
    callbacks       \* form_valid_callback calls made by the last call

vars == <<is_production, body, cls, admin, op, result, messages, evals, callbacks>>

NoResult == [kind |-> "none"]

\* The start of a process that constructs the instances named in site from
\* a class with one of the given bodies.
Start(site, bodies) ==
    /\ is_production \in BOOLEAN
    /\ body \in bodies
    /\ cls = [_actions_row |-> <<>>, _actions_list |-> <<>>, _actions_detail |-> <<>>]
    /\ admin = [a \in site |->
                  [constructed |-> FALSE,
                   _actions_row |-> None, _actions_list |-> None,
                   _actions_detail |-> None,
                   request |-> None, object |-> None]]
    /\ op = [name |-> "start"]
    /\ result = NoResult
    /\ messages = <<>>
    /\ evals = <<>>
    /\ callbacks = <<>>

\* One instance (admin.site.register constructs one per registration).
Init == Start({"a1"}, ClassBodies)

\* Two instances of the same class.
InitTwo == Start({"a1", "a2"}, TwoBodies)

Admins == DOMAIN admin

\* ------------------------------------------------------------- construction
\* getattr(self, attr): the instance's own attribute, else the class's.
GetBucket(c, self, attr) ==
    IF self[attr] # None THEN self[attr][1] ELSE c[attr]

\* The registry as a list: += extends the class's list in place and every
\* instance shares it.
IAddInPlace(c, self, attr, func) ==
    [cls |-> [c EXCEPT ![attr] = GetBucket(c, self, attr) \o <<func>>],
     self |-> [self EXCEPT ![attr] = Some(GetBucket(c, self, attr) \o <<func>>)]]

\* self.<attr> += (func,): tuples are immutable, so the sum is a new tuple
\* bound on the instance; the class attribute is left as it was.
IAdd(c, self, attr, func) ==
    [cls |-> c,
     self |-> [self EXCEPT ![attr] = Some(GetBucket(c, self, attr) \o <<func>>)]]

\* The loop body with the list flag filed under the row bucket.
InitStepSwapped(st, func) ==
    LET s1 == IF func.__is_row \/ func.__is_list
              THEN IAdd(st.cls, st.self, "_actions_row", func.__name__) ELSE st
        s2 == IF func.__is_detail
              THEN IAdd(s1.cls, s1.self, "_actions_detail", func.__name__) ELSE s1
    IN s2

\* One iteration of the loop of __init__ for member func.
InitStep(st, func) ==
    LET s1 == IF func.__is_row
              THEN IAdd(st.cls, st.self, "_actions_row", func.__name__) ELSE st
        s2 == IF func.__is_list
              THEN IAdd(s1.cls, s1.self, "_actions_list", func.__name__) ELSE s1
        s3 == IF func.__is_detail
              THEN IAdd(s2.cls, s2.self, "_actions_detail", func.__name__) ELSE s2
    IN s3

RECURSIVE InitLoop(_, _, _)
InitLoop(b, k, st) ==
    IF k > Len(MemberOrder) THEN st
    ELSE LET m == b[MemberOrder[k]]
         IN InitLoop(b, k + 1, IF isaction(m) THEN InitStep(st, m) ELSE st)

__init__(a) ==
    /\ ~admin[a].constructed
    /\ LET st == InitLoop(body, 1, [cls |-> cls, self |-> admin[a]])
       IN /\ cls' = st.cls
          /\ admin' = [admin EXCEPT ![a] = [st.self EXCEPT !.constructed = TRUE]]
    /\ op' = [name |-> "__init__", self |-> a]
    /\ result' = NoResult
    /\ messages' = <<>>
    /\ evals' = <<>>
    /\ callbacks' = <<>>
    /\ UNCHANGED <<is_production, body>>

\* --------------------------------------------------------------- resolver
\* getattr(func, "__visible")(view=self, request=self.request, obj=obj)
Visible(prod, func, view, request, obj) ==
    CASE func.__visible = "always_visible" -> always_visible(view, request, obj)
      [] func.__visible = "hide_in_prod" -> hide_in_prod(prod, view, request, obj)
      [] OTHER -> not_hidden(view, request, obj)

\* The resolver with the guard grouped as (A or B) and C: without a current
\* object nothing is filtered, whatever check_instance says.
_get_visible_actions_regrouped(prod, b, a, self, actions, check_instance, prop) ==
    LET obj == self.object
    IN IF (self.request = None \/ check_instance) /\ obj = None
       THEN [out |-> actions, evals |-> <<>>]
       ELSE [out |-> SelectSeq(actions,
                        LAMBDA f : Visible(prod, b[f], a,
                                       IF self.request = None THEN None
                                       ELSE self.request[1], obj)),
             evals |-> [k \in DOMAIN actions |->
                          [prop |-> prop, func |-> actions[k], view |-> a,
                           request |-> IF self.request = None THEN None
                                       ELSE self.request[1],
                           obj |-> obj]]]

\* _get_visible_actions(actions, check_instance) on instance a with __dict__
\* self; prop names the property that called it.  out: the functions
\* returned; evals: the predicate calls made, in order.
_get_visible_actions(prod, b, a, self, actions, check_instance, prop) ==
    LET obj == self.object
    IN IF self.request = None \/ (check_instance /\ obj = None)
       THEN [out |-> actions, evals |-> <<>>]
       ELSE [out |-> SelectSeq(actions,
                        LAMBDA f : Visible(prod, b[f], a, self.request[1], obj)),
             evals |-> [k \in DOMAIN actions |->
                          [prop |-> prop, func |-> actions[k], view |-> a,
                           request |-> self.request[1], obj |-> obj]]]

\* The three properties; each returns the __name__ of the visible functions.
actions_row(prod, b, c, a, self) ==
    LET v == _get_visible_actions(prod, b, a, self,
                 GetBucket(c, self, "_actions_row"), TRUE, "actions_row")
    IN [out |-> [k \in DOMAIN v.out |-> b[v.out[k]].__name__], evals |-> v.evals]

actions_list(prod, b, c, a, self) ==
    LET v == _get_visible_actions(prod, b, a, self,
                 GetBucket(c, self, "_actions_list"), FALSE, "actions_list")
    IN [out |-> [k \in DOMAIN v.out |-> b[v.out[k]].__name__], evals |-> v.evals]

actions_detail(prod, b, c, a, self) ==
    LET v == _get_visible_actions(prod, b, a, self,
                 GetBucket(c, self, "_actions_detail"), TRUE, "actions_detail")
    IN [out |-> [k \in DOMAIN v.out |-> b[v.out[k]].__name__], evals |-> v.evals]

\* ------------------------------------------------------------------- routes
app_label == "shop"
model_name == "order"

_get_url_name(method_name) == <<app_label, model_name, method_name>>

Range(s) == {s[k] : k \in DOMAIN s}

Perms(S) ==
    {p \in [1..Cardinality(S) -> S] : \A x \in S : \E k \in DOMAIN p : p[k] = x}

\* _generate_urls_for(method_names, detail): path(url_path, view, name=...).
\* int_pk says that url_path ends in "/<int:pk>/".
_generate_urls_for(method_names, detail) ==
    [k \in DOMAIN method_names |->
        [path |-> [head |-> method_names[k], int_pk |-> detail],
         view |-> method_names[k],
         name |-> _get_url_name(method_names[k])]]

\* super().get_urls(): the ModelAdmin's own routes.
ModelAdminUrls ==
    <<[path |-> [head |-> "", int_pk |-> FALSE], view |-> "changelist_view",
       name |-> _get_url_name("changelist")],
      [path |-> [head |-> "change", int_pk |-> TRUE], view |-> "change_view",
       name |-> _get_url_name("change")]>>

\* get_urls(): order is the order in which the set detail_method_names is
\* iterated, which Python does not fix.
get_urls(prod, b, c, a, self, order) ==
    LET row == actions_row(prod, b, c, a, self)
        det == actions_detail(prod, b, c, a, self)
        lst == actions_list(prod, b, c, a, self)
    IN [out |-> _generate_urls_for(order, TRUE)
                  \o _generate_urls_for(lst.out, FALSE)
                  \o ModelAdminUrls,
        evals |-> row.evals \o det.evals \o lst.evals]

\* set(self.actions_row) | set(self.actions_detail)
detail_method_names(prod, b, c, a, self) ==
    Range(actions_row(prod, b, c, a, self).out)
        \cup Range(actions_detail(prod, b, c, a, self).out)

\* The URLconf the site registered for this instance: admin.site.urls is
\* evaluated when the project's urls module is imported, which is before the
\* first request is dispatched, so no request or object is bound yet.
urlpatterns(prod, b, c, a, self) ==
    LET fresh == [self EXCEPT !.request = None, !.object = None]
        names == detail_method_names(prod, b, c, a, fresh)
    IN Range(get_urls(prod, b, c, a, fresh, CHOOSE p \in Perms(names) : TRUE).out)

NoReverseMatch == [view |-> "NoReverseMatch", args |-> <<>>]

\* django.urls.reverse: a route of that name taking as many arguments as are
\* given, with the arguments filled in; NoReverseMatch if there is none.
reverse(patterns, name, args) ==
    IF \E r \in patterns :
          r.name = name /\ (r.path.int_pk <=> Len(args) = 1)
    THEN [view |-> name[3], args |-> args]
    ELSE NoReverseMatch

\* _get_url(method_name, url_args)
_get_url(patterns, method_name, url_args) ==
    reverse(patterns, _get_url_name(method_name), url_args)

\* Python truthiness of an object id: None and the int 0 are false; the
\* str the change route captures is never empty, so it is true.
Truthy(x) == x # None /\ (x[1].type = "int" => x[1].v # 0)

IntId(n) == Some([type |-> "int", v |-> n])
StrId(n) == Some([type |-> "str", v |-> n])

\* _get_action_buttons(method_names, object_id)
_get_action_buttons(patterns, b, method_names, object_id) ==
    LET url_args == IF Truthy(object_id) THEN <<object_id[1].v>> ELSE <<>>
    IN [k \in DOMAIN method_names |->
          [title |-> b[method_names[k]].short_description,
           path |-> _get_url(patterns, method_names[k], url_args)]]

\* add_actions_context(extra_context, method_names, object_id)
add_actions_context(patterns, b, method_names, object_id) ==
    [actions_list |-> _get_action_buttons(patterns, b, method_names, object_id)]

\* ------------------------------------------------------------------- utils
\* get_admin_url(model, method_name, args)
get_admin_url(patterns, method_name, args) ==
    reverse(patterns, <<app_label, model_name, method_name>>, args)

\* get_object_url(model, pk)
get_object_url(patterns, pk) == get_admin_url(patterns, "change", <<pk>>)

\* get_object_url_from_obj(obj)
get_object_url_from_obj(patterns, obj) ==
    get_admin_url(patterns, "change", <<obj.pk>>)

\* "changelist" in url.name, for the identifiers of this model.
HasChangelist(name) == \E k \in DOMAIN name : name[k] = "changelist"

\* redirect_to_list_view(admin): urls is admin.urls, that is get_urls() as
\* of now; the first route whose name holds "changelist" is redirected to.
redirect_to_list_view(patterns, urls) ==
    LET k == CHOOSE i \in DOMAIN urls :
                 /\ HasChangelist(urls[i].name)
                 /\ \A j \in 1..(i - 1) : ~HasChangelist(urls[j].name)
    IN [kind |-> "redirect", to |-> reverse(patterns, urls[k].name, <<>>)]

\* ----------------------------------------------------------------- requests
\* The request the framework hands to the view handlers.
GetRequest == [method |-> "GET", POST |-> {}]

\* The POST requests of the confirmation page: the marker field "apply"
\* and the form's one required field, each present or not.
PostRequests == {[method |-> "POST", POST |-> p] : p \in SUBSET {"apply", "comment"}}

\* self.get_object(request, object_id): the row as it is now, or None.
get_object(object_id) ==
    IF object_id \in Pks
    THEN {Some([pk |-> object_id, is_hidden |-> h]) : h \in BOOLEAN}
    ELSE {None}

\* What the wrapped method can return: nothing, a response, or some other
\* value (the docstring's "return instance").
Returns == {[type |-> "NoneType"], [type |-> "HttpResponse"], [type |-> "Model"]}

\* What form_valid_callback can return.
CallbackReturns == {[type |-> "NoneType"], [type |-> "HttpResponse"]}

isinstance_HttpResponseBase(r) == r.type = "HttpResponse"

\* ------------------------------------------------------------- the handlers
Bound(a) == admin[a].constructed

Patterns(a) == urlpatterns(is_production, body, cls, a, admin[a])

changelist_view(a, request) ==
    /\ Bound(a)
    /\ LET self == [admin[a] EXCEPT !.request = Some(request), !.object = None]
           names == actions_list(is_production, body, cls, a, self)
       IN /\ admin' = [admin EXCEPT ![a] = self]
          /\ evals' = names.evals
          /\ result' = [kind |-> "context",
                        value |-> add_actions_context(Patterns(a), body,
                                      names.out, None)]
    /\ op' = [name |-> "changelist_view", self |-> a]
    /\ messages' = <<>>
    /\ callbacks' = <<>>
    /\ UNCHANGED <<is_production, body, cls>>

change_view(a, request, object_id) ==
    /\ Bound(a)
    /\ \E obj \in get_object(object_id) :
         LET self == [admin[a] EXCEPT !.request = Some(request), !.object = obj]
             names == actions_detail(is_production, body, cls, a, self)
         IN /\ admin' = [admin EXCEPT ![a] = self]
            /\ evals' = names.evals
            /\ result' = [kind |-> "context",
                          value |-> add_actions_context(Patterns(a), body,
                                        names.out, StrId(object_id))]
    /\ op' = [name |-> "change_view", self |-> a, object_id |-> object_id]
    /\ messages' = <<>>
    /\ callbacks' = <<>>
    /\ UNCHANGED <<is_production, body, cls>>

get_list_display(a, request) ==
    /\ Bound(a)
    /\ LET self == [admin[a] EXCEPT !.request = Some(request)]
           names == actions_row(is_production, body, cls, a, self)
       IN /\ admin' = [admin EXCEPT ![a] = self]
          /\ evals' = names.evals
          /\ result' = [kind |-> "list_display",
                        value |-> IF Len(names.out) > 0
                                  THEN <<"__str__", "actions_holder">>
                                  ELSE <<"__str__">>]
    /\ op' = [name |-> "get_list_display", self |-> a]
    /\ messages' = <<>>
    /\ callbacks' = <<>>
    /\ UNCHANGED <<is_production, body, cls>>

actions_holder(a, instance) ==
    /\ Bound(a)
    /\ LET self == [admin[a] EXCEPT !.object = Some(instance)]
           names == actions_row(is_production, body, cls, a, self)
       IN /\ admin' = [admin EXCEPT ![a] = self]
          /\ evals' = names.evals
          /\ result' = [kind |-> "row_tools",
                        value |-> _get_action_buttons(Patterns(a), body,
                                      names.out, IntId(instance.pk))]
    /\ op' = [name |-> "actions_holder", self |-> a, instance |-> instance]
    /\ messages' = <<>>
    /\ callbacks' = <<>>
    /\ UNCHANGED <<is_production, body, cls>>

GetUrls(a) ==
    /\ Bound(a)
    /\ \E order \in Perms(detail_method_names(is_production, body, cls, a, admin[a])) :
         LET u == get_urls(is_production, body, cls, a, admin[a], order)
         IN /\ evals' = u.evals
            /\ result' = [kind |-> "urls", value |-> u.out]
    /\ op' = [name |-> "get_urls", self |-> a]
    /\ messages' = <<>>
    /\ callbacks' = <<>>
    /\ UNCHANGED <<is_production, body, cls, admin>>

\* The message built from the method identifier instead of the display name.
generate_action_message_by_id(request, act) ==
    [request |-> request,
     text |-> <<"Action \"">> \o Chars(act.__name__)
                  \o <<"\" successfully executed">>]

\* generate_action_message(request, action): message_user(request, text)
generate_action_message(request, act) ==
    [request |-> request,
     text |-> <<"Action \"">> \o act.short_description
                  \o <<"\" successfully executed">>]

\* The navigation result of inner, given what f returned.
Navigate(patterns, urls, ret, pk) ==
    IF isinstance_HttpResponseBase(ret)
    THEN [kind |-> "response", value |-> ret]
    ELSE IF Truthy(pk)
         THEN [kind |-> "redirect", to |-> get_object_url(patterns, pk[1].v)]
         ELSE redirect_to_list_view(patterns, urls)

\* The framework dispatches a request to the route of method f: the list
\* route passes no pk, the "<int:pk>" route passes the int it captured.
Dispatched(patterns, f, pk) ==
    \E r \in patterns :
        /\ r.view = f /\ r.name = _get_url_name(f)
        /\ (r.path.int_pk <=> pk # None)

\* inner(self, request, pk) for the wrapped method f, which returns ret.
\* urls is self.urls as redirect_to_list_view reads it.
InnerOutcome(patterns, urls, request, func, pk, ret) ==
    [messages |-> IF func.show_message
                  THEN <<generate_action_message(request, func)>>
                  ELSE <<>>,
     result |-> Navigate(patterns, urls.out, ret, pk),
     evals |-> IF ~isinstance_HttpResponseBase(ret) /\ ~Truthy(pk)
               THEN urls.evals ELSE <<>>]

inner(a, request, pks, rets) ==
    /\ Bound(a)
    /\ LET patterns == Patterns(a)
           names == detail_method_names(is_production, body, cls, a, admin[a])
           urls == get_urls(is_production, body, cls, a, admin[a],
                            CHOOSE p \in Perms(names) : TRUE)
       IN \E f \in DOMAIN body, pk \in pks, ret \in rets :
            /\ isaction(body[f])
            /\ Dispatched(patterns, f, pk)
            /\ LET o == InnerOutcome(patterns, urls, request, body[f], pk, ret)
               IN /\ messages' = o.messages
                  /\ result' = o.result
                  /\ evals' = o.evals
            /\ op' = [name |-> "inner", self |-> a, func |-> f, pk |-> pk,
                      ret |-> ret]
    /\ callbacks' = <<>>
    /\ UNCHANGED <<is_production, body, cls, admin>>

\* ------------------------------------------------------- confirmation form
\* form_cls(data) for a form with the one required field "comment", and
\* form_cls() unbound.
form_cls(data) ==
    [is_bound |-> TRUE, data |-> data,
     errors |-> {"comment"} \ data]

form_cls_unbound == [is_bound |-> FALSE, data |-> {}, errors |-> {}]

\* A check that takes every bound form for valid.
is_valid_if_bound(form) == form.is_bound

is_valid(form) == form.is_bound /\ form.errors = {}

\* What _confirmation_view returns and the callback calls it makes (each
\* with what the callback returned), given the object get_object found and
\* what the callback would return.
ConfirmationOutcome(patterns, request, obj, entrypoint_action, cb_ret) ==
    IF obj = None
    THEN \* get_object_url_from_obj(None): None.__class__ has no _meta
         [result |-> [kind |-> "raise", value |-> "AttributeError"],
          callbacks |-> <<>>]
    ELSE LET obj_url == get_object_url_from_obj(patterns, obj[1])
             posted == "apply" \in request.POST
             form0 == IF posted THEN Some(form_cls(request.POST)) ELSE None
         IN IF posted /\ is_valid(form0[1])
            THEN [result |-> [kind |-> "callback", value |-> cb_ret],
                  callbacks |-> <<[request |-> request, form |-> form0[1],
                                   obj |-> obj[1], returned |-> cb_ret]>>]
            ELSE LET form == IF form0 = None THEN form_cls_unbound ELSE form0[1]
                 IN [result |->
                        [kind |-> "render",
                         value |->
                            [action_name |-> entrypoint_action.__name__,
                             action_short_description |->
                                 entrypoint_action.short_description,
                             form |-> form,
                             instance |-> obj[1],
                             obj_url |-> obj_url]],
                     callbacks |-> <<>>]

_confirmation_view(a, requests, pks, f, cb_rets) ==
    /\ Bound(a)
    /\ isaction(body[f])
    /\ LET patterns == Patterns(a)
       IN \E request \in requests, pk \in pks, cb_ret \in cb_rets :
            \E obj \in get_object(pk) :
              LET o == ConfirmationOutcome(patterns, request, obj, body[f], cb_ret)
              IN /\ result' = o.result
                 /\ callbacks' = o.callbacks
                 /\ op' = [name |-> "_confirmation_view", self |-> a,
                           request |-> request, obj |-> obj]
    /\ messages' = <<>>
    /\ evals' = <<>>
    /\ UNCHANGED <<is_production, body, cls, admin>>

\* The framework's calls, in any order, on any instance.
Next ==
    \/ \E a \in Admins : __init__(a)
    \/ \E a \in Admins : changelist_view(a, GetRequest)
    \/ \E a \in Admins, object_id \in 0..(MaxPk + 1) :
          change_view(a, GetRequest, object_id)
    \/ \E a \in Admins : get_list_display(a, GetRequest)
    \/ \E a \in Admins, pk \in Pks, h \in BOOLEAN :
          actions_holder(a, [pk |-> pk, is_hidden |-> h])
    \/ \E a \in Admins : GetUrls(a)
    \/ \E a \in Admins :
          inner(a, GetRequest, {None} \cup {IntId(n) : n \in Pks}, Returns)
    \/ \E a \in Admins :
          _confirmation_view(a, PostRequests, {MaxPk, MaxPk + 1}, "hide_It",
                             CallbackReturns)

\* The same calls with one existing row, one request and one return value.
NextTwo ==
    \/ \E a \in Admins : __init__(a)
    \/ \E a \in Admins : changelist_view(a, GetRequest)
    \/ \E a \in Admins : change_view(a, GetRequest, MaxPk)
    \/ \E a \in Admins : get_list_display(a, GetRequest)
    \/ \E a \in Admins : actions_holder(a, [pk |-> MaxPk, is_hidden |-> TRUE])
    \/ \E a \in Admins : GetUrls(a)
    \/ \E a \in Admins :
          inner(a, GetRequest, {None, IntId(MaxPk)}, {[type |-> "NoneType"]})
    \/ \E a \in Admins :
          _confirmation_view(a, {[method |-> "POST", POST |-> {"apply", "comment"}]},
                             {MaxPk}, "hide_It", {[type |-> "NoneType"]})

Spec == Init /\ [][Next]_vars

SpecTwo == InitTwo /\ [][NextTwo]_vars

\* ------------------------------------------------------------------ claims
Actions == {m \in DOMAIN body : isaction(body[m])}

InSeq(x, s) == \E k \in DOMAIN s : s[k] = x

Bucket(a, attr) == GetBucket(cls, admin[a], attr)

\* C1: once an instance is constructed, each decorated method is in the
\* row / list / detail bucket of that instance exactly when it was declared
\* with row=True / list=True / detail=True.
C1_BucketIffFlag ==
    \A a \in Admins :
        admin[a].constructed =>
            \A m \in Actions :
                /\ InSeq(m, Bucket(a, "_actions_row")) <=> body[m].__is_row
                /\ InSeq(m, Bucket(a, "_actions_list")) <=> body[m].__is_list
                /\ InSeq(m, Bucket(a, "_actions_detail")) <=> body[m].__is_detail

\* A constructed instance of a class with a row-only action beside an
\* action declared in all three placements.
C1_Witness ==
    \E a \in Admins :
        /\ admin[a].constructed
        /\ body["hide_It"].__is_row
        /\ ~body["hide_It"].__is_list /\ ~body["hide_It"].__is_detail
        /\ body["fill_DB"].__is_row /\ body["fill_DB"].__is_detail
        /\ Bucket(a, "_actions_row") = <<"fill_DB", "hide_It">>
        /\ Bucket(a, "_actions_list") = <<"fill_DB">>
        /\ Bucket(a, "_actions_detail") = <<"fill_DB">>

\* C2: a wrapped action returns the original method's response unchanged if
\* it returned one; otherwise a redirect to the change URL of the object
\* with the supplied primary key if one was supplied; otherwise a redirect
\* to the list view.
C2_Navigation ==
    op.name = "inner" =>
        IF op.ret.type = "HttpResponse"
        THEN result = [kind |-> "response", value |-> op.ret]
        ELSE IF op.pk # None
             THEN result = [kind |-> "redirect",
                            to |-> [view |-> "change", args |-> <<op.pk[1].v>>]]
             ELSE result = [kind |-> "redirect",
                            to |-> [view |-> "changelist", args |-> <<>>]]

\* s occurs in t as a contiguous run (the text contains s).
Contains(t, s) ==
    \E k \in 0..(Len(t) - Len(s)) : \A j \in 1..Len(s) : t[k + j] = s[j]

\* The display names the class body declares: "hide_It" has no name=, so its
\* identifier humanized; "fill_DB" has name="Fill".
DisplayName(f) ==
    IF f = "hide_It" THEN <<"H", "i", "d", "e", " ", "i", "t">>
    ELSE <<"F", "i", "l", "l">>

\* C3: an invocation of an action declared with show_message=False records
\* no notification; with the default it records exactly one, which contains
\* the action's display name, whatever the original method returned.
C3_Notifications ==
    op.name = "inner" =>
        IF body[op.func].show_message
        THEN /\ Len(messages) = 1
             /\ Contains(messages[1].text, DisplayName(op.func))
        ELSE messages = <<>>

\* An invocation of the action with a name override whose method returned
\* an explicit response, and which recorded its notification.
C3_Witness ==
    /\ op.name = "inner"
    /\ op.func = "fill_DB"
    /\ body["fill_DB"].show_message
    /\ op.ret.type = "HttpResponse"
    /\ Len(messages) = 1

\* The bucket a class body yields: its decorated members with the flag, in
\* member order.
ExpectedBucket(flag) ==
    SelectSeq(MemberOrder, LAMBDA m : m \in Actions /\ body[m][flag])

C10_Registry ==
    /\ cls = [_actions_row |-> <<>>, _actions_list |-> <<>>, _actions_detail |-> <<>>]
    /\ \A a \in Admins :
          IF admin[a].constructed
          THEN /\ Bucket(a, "_actions_row") = ExpectedBucket("__is_row")
               /\ Bucket(a, "_actions_list") = ExpectedBucket("__is_list")
               /\ Bucket(a, "_actions_detail") = ExpectedBucket("__is_detail")
          ELSE /\ admin[a]._actions_row = None
               /\ admin[a]._actions_list = None
               /\ admin[a]._actions_detail = None

C10_Frame ==
    \A a \in Admins :
        admin[a].constructed =>
            /\ admin'[a]._actions_row = admin[a]._actions_row
            /\ admin'[a]._actions_list = admin[a]._actions_list
            /\ admin'[a]._actions_detail = admin[a]._actions_detail

\* C10: the class-level defaults stay empty however many instances are
\* constructed, every constructed instance's buckets hold exactly its own
\* class's flagged actions, each once, and no call after construction
\* changes a bucket of a constructed instance.
C10_RegistryFixed == [](C10_Registry) /\ [][C10_Frame]_vars

\* Both instances constructed, the second after the first, and a handler
\* called since.
C10_Witness ==
    /\ \A a \in Admins : admin[a].constructed
    /\ Cardinality(Admins) = 2
    /\ op.name = "inner"
    /\ \A a \in Admins : Bucket(a, "_actions_row") = <<"hide_It">>
\* C4: in the confirmation flow on an existing target object, a request
\* without the marker "apply" renders an unbound form and calls no callback;
\* one with the marker and an invalid form renders the bound form with its
\* errors and calls no callback; one with the marker and a valid form calls
\* the callback once with (request, validated form, object) and returns what
\* the callback returned.  The outcome is that of the request at hand,
\* whatever calls came before it.
C4_ConfirmationFlow ==
    (op.name = "_confirmation_view" /\ op.obj # None) =>
        LET post == op.request.POST
        IN IF "apply" \notin post
           THEN /\ result.kind = "render"
                /\ result.value.form = [is_bound |-> FALSE, data |-> {}, errors |-> {}]
                /\ result.value.instance = op.obj[1]
                /\ callbacks = <<>>
           ELSE IF "comment" \notin post
                THEN /\ result.kind = "render"
                     /\ result.value.form =
                            [is_bound |-> TRUE, data |-> post, errors |-> {"comment"}]
                     /\ result.value.instance = op.obj[1]
                     /\ callbacks = <<>>
                ELSE /\ Len(callbacks) = 1
                     /\ callbacks[1].request = op.request
                     /\ callbacks[1].form =
                            [is_bound |-> TRUE, data |-> post, errors |-> {}]
                     /\ callbacks[1].obj = op.obj[1]
                     /\ result = [kind |-> "callback", value |-> callbacks[1].returned]

\* A request with the marker and a valid form whose callback returned a
\* response.
C4_Witness ==
    /\ op.name = "_confirmation_view"
    /\ op.obj # None
    /\ op.request.POST = {"apply", "comment"}
    /\ Len(callbacks) = 1
    /\ result = [kind |-> "callback", value |-> [type |-> "HttpResponse"]]

\* The routes of a get_urls result for method m that take an object id.
PkRoutes(urls, m) ==
    {k \in DOMAIN urls :
        /\ urls[k].name = <<"shop", "order", m>>
        /\ urls[k].path = [head |-> m, int_pk |-> TRUE]}

\* C5: for a method flagged row=True and detail=True, get_urls generates
\* exactly one route taking an object id, named <app>_<model>_<method> with
\* path <method>/<int:pk>/; and no two routes taking an object id share a
\* name.
C5_SingleRoute ==
    op.name = "get_urls" =>
        /\ \A m \in Actions :
              (body[m].__is_row /\ body[m].__is_detail) =>
                  Cardinality(PkRoutes(result.value, m)) = 1
        /\ \A j, k \in DOMAIN result.value :
              (/\ result.value[j].path.int_pk
               /\ result.value[k].path.int_pk
               /\ result.value[j].name = result.value[k].name) => j = k

\* What each resolver property returns on instance a as it stands.
Resolved(a, prop) ==
    CASE prop = "actions_row" ->
            actions_row(is_production, body, cls, a, admin[a]).out
      [] prop = "actions_list" ->
            actions_list(is_production, body, cls, a, admin[a]).out
      [] OTHER ->
            actions_detail(is_production, body, cls, a, admin[a]).out

BucketOf(prop) ==
    CASE prop = "actions_row" -> "_actions_row"
      [] prop = "actions_list" -> "_actions_list"
      [] OTHER -> "_actions_detail"

Resolvers == {"actions_row", "actions_list", "actions_detail"}

ProdActions == {m \in Actions : body[m].__visible = "hide_in_prod"}

\* C6 as stated: whenever a request is bound, each resolver excludes a
\* hide_in_prod action of its bucket when the production flag is true and
\* includes it when the flag is false.
C6_Original ==
    \A a \in Admins, prop \in Resolvers, m \in ProdActions :
        (/\ admin[a].constructed
         /\ admin[a].request # None
         /\ InSeq(m, Bucket(a, BucketOf(prop)))) =>
            (InSeq(m, Resolved(a, prop)) <=> ~is_production)

\* C6 amended: whenever a request is bound and, for actions_row and
\* actions_detail, a current object is set, the resolver excludes a
\* hide_in_prod action of its bucket when the production flag is true and
\* includes it when false; when actions_row or actions_detail is read with
\* no current object, the action is included whatever the flag.
C6_Amended ==
    \A a \in Admins, prop \in Resolvers, m \in ProdActions :
        (/\ admin[a].constructed
         /\ admin[a].request # None
         /\ InSeq(m, Bucket(a, BucketOf(prop)))) =>
            IF prop = "actions_list" \/ admin[a].object # None
            THEN InSeq(m, Resolved(a, prop)) <=> ~is_production
            ELSE InSeq(m, Resolved(a, prop))

\* In production, a row rendered with a request bound: the hide_in_prod row
\* action has no button.
C6_Witness ==
    /\ op.name = "actions_holder"
    /\ is_production
    /\ admin[op.self].request # None
    /\ InSeq("fill_DB", Bucket(op.self, "_actions_row"))
    /\ \A k \in DOMAIN result.value : result.value[k].title # <<"F", "i", "l", "l">>

\* The declared predicate of each action, on the current object.
ExpectedVisible(m, obj) ==
    IF m = "hide_It" THEN obj = None \/ ~obj[1].is_hidden ELSE ~is_production

\* C7: with a request bound and (check_instance false or a current object
\* set) the resolver returns the sublist of the bucket, in order, whose
\* predicate holds for (view, current request, current object), evaluating
\* each predicate on them; otherwise it returns the whole bucket and
\* evaluates nothing.  Nothing is cached: what change_view shows is the
\* sublist for the object as it is at that call.
C7_Resolver ==
    /\ \A a \in Admins, prop \in Resolvers, check_instance \in BOOLEAN :
          admin[a].constructed =>
              LET self == admin[a]
                  bucket == Bucket(a, BucketOf(prop))
                  v == _get_visible_actions(is_production, body, a, self,
                                            bucket, check_instance, prop)
              IN IF self.request # None /\ (~check_instance \/ self.object # None)
                 THEN /\ v.out = SelectSeq(bucket,
                                     LAMBDA m : ExpectedVisible(m, self.object))
                      /\ Len(v.evals) = Len(bucket)
                      /\ \A k \in DOMAIN bucket :
                            /\ v.evals[k].func = bucket[k]
                            /\ v.evals[k].view = a
                            /\ v.evals[k].request = self.request[1]
                            /\ v.evals[k].obj = self.object
                 ELSE v.out = bucket /\ v.evals = <<>>
    /\ (op.name = "change_view" /\ admin[op.self].object # None) =>
          LET shown == SelectSeq(Bucket(op.self, "_actions_detail"),
                           LAMBDA m : ExpectedVisible(m, admin[op.self].object))
          IN /\ Len(result.value.actions_list) = Len(shown)
             /\ \A k \in DOMAIN shown :
                   result.value.actions_list[k].title = body[shown[k]].short_description

\* A detail view of a hidden object: the action declared visible only for
\* objects that are not hidden is in the detail bucket and is not shown.
C7_Witness ==
    /\ op.name = "change_view"
    /\ admin[op.self].object # None
    /\ admin[op.self].object[1].is_hidden
    /\ InSeq("hide_It", Bucket(op.self, "_actions_detail"))
    /\ \A k \in DOMAIN result.value.actions_list :
          result.value.actions_list[k].title # body["hide_It"].short_description
    /\ Len(evals) = Len(Bucket(op.self, "_actions_detail"))

\* C8: every get_urls call, whatever request and object are bound, yields a
\* route taking an object id for every action of the row and detail buckets
\* and a route taking none for every action of the list bucket.
C8_StaticRoutes ==
    op.name = "get_urls" =>
        /\ \A m \in Range(Bucket(op.self, "_actions_row"))
                      \cup Range(Bucket(op.self, "_actions_detail")) :
              \E k \in DOMAIN result.value :
                  result.value[k].path = [head |-> m, int_pk |-> TRUE]
        /\ \A m \in Range(Bucket(op.self, "_actions_list")) :
              \E k \in DOMAIN result.value :
                  result.value[k].path = [head |-> m, int_pk |-> FALSE]

\* C9: in changelist_view, get_list_display, actions_holder, change_view and
\* get_urls, every evaluation of a list action's predicate through
\* actions_list receives obj = None.
C9_ListObjNone ==
    op.name \in {"changelist_view", "get_list_display", "actions_holder",
                 "change_view", "get_urls"} =>
        \A k \in DOMAIN evals :
            evals[k].prop = "actions_list" => evals[k].obj = None
====
